---- MODULE Spec2Model ----
(***************************************************************************)
(* Weather data pipeline: load_data.py (ingestion, raw de-duplication) and *)
(* calculate_statistics.py (yearly aggregation, statistics                 *)
(* de-duplication), over one SQLAlchemy session and two tables.            *)
(*                                                                         *)
(* Text is a sequence of Unicode code points ("-9" is <<45, 57>>).  A      *)
(* nullable column is <<>> (NULL) or <<v>>.  A Float statistic is held in  *)
(* hundredths (15.0 is <<1500>>), which is exact after round(.., 2).       *)
(***************************************************************************)
EXTENDS Integers, Sequences, FiniteSets, TLC

VARIABLES
    records,          \* committed rows of the WeatherRecord table
    pending,          \* objects added to db.session and not yet flushed
    stats,            \* committed rows of the WeatherStats table
    clock,            \* the last value datetime.utcnow() returned
    nextId,           \* next autoincrement id of WeatherRecord
    nextStatId,       \* next autoincrement id of WeatherStats
    lastOp,           \* the function that ran last
    dedupRuns,        \* load_data.remove_duplicates runs in a row up to now (at most 2)
    dir,              \* the directory the last load_data_from_files run was given
    raised,           \* the exception that ended the last load run, or "none"
    loadFirstId,      \* nextId when the last load run started
    before,           \* WeatherRecord table the last load_data.remove_duplicates saw
    statsBefore,      \* WeatherStats table the last calculate_statistics.remove_duplicates saw
    inserted,         \* WeatherStats rows the last calculate_statistics run inserted
    duplicate_count   \* len(duplicates) of the last remove_duplicates run

vars == <<records, pending, stats, clock, nextId, nextStatId, lastOp, dedupRuns,
          dir, raised, loadFirstId, before, statsBefore, inserted, duplicate_count>>

-----------------------------------------------------------------------------
(* Bounds *)

\* total number of WeatherRecord objects created over a behaviour
MaxInserts == 2
\* total number of WeatherStats rows inserted over a behaviour
MaxStatInserts == 2
\* lines per data file
MaxLines == 2
\* rows of the WeatherRecord table drawn for one aggregation
MaxRows == 4

-----------------------------------------------------------------------------
(* Python text operations *)

NULL == <<>>

\* the code points str.isspace() holds for, which str.strip() removes:
\* U+0009..U+000D, U+001C..U+0020, U+0085, U+00A0, U+1680, U+2000..U+200A,
\* U+2028, U+2029, U+202F, U+205F, U+3000
Whitespace ==
    (9..13) \cup (28..32) \cup {133, 160, 5760} \cup (8192..8202)
        \cup {8232, 8233, 8239, 8287, 12288}

\* the whitespace int() skips around a number: the separators
\* U+001C..U+001F are not part of it
IntWhitespace == Whitespace \ (28..31)

\* the code point of the digit zero of every Unicode decimal digit run
\* (category Nd); the other nine digits follow it in order
DecimalZeros ==
    {48, 1632, 1776, 1984, 2406, 2534, 2662, 2790, 2918, 3046, 3174, 3302,
     3430, 3558, 3664, 3792, 3872, 4160, 4240, 6112, 6160, 6470, 6608, 6784,
     6800, 6992, 7088, 7232, 7248, 42528, 43216, 43264, 43472, 43504, 43600,
     44016, 65296, 66720, 68912, 69734, 69872, 69942, 70096, 70384, 70736,
     70864, 71248, 71360, 71472, 71904, 72016, 72784, 73040, 73120, 92768,
     92864, 93008, 120782, 120792, 120802, 120812, 120822, 123200, 123632,
     125264, 130032}

Digits == UNION {z..(z + 9) : z \in DecimalZeros}

DigitVal(c) == c - (CHOOSE z \in DecimalZeros : z <= c /\ c <= z + 9)

RECURSIVE LStrip(_, _)
LStrip(s, ws) ==
    IF s # <<>> /\ Head(s) \in ws THEN LStrip(Tail(s), ws) ELSE s

RECURSIVE RStrip(_, _)
RStrip(s, ws) ==
    IF s # <<>> /\ s[Len(s)] \in ws
    THEN RStrip(SubSeq(s, 1, Len(s) - 1), ws)
    ELSE s

\* str.strip()
Strip(s) == RStrip(LStrip(s, Whitespace), Whitespace)

\* str.split(sep) for a one-character separator: never an empty list
RECURSIVE SplitFrom(_, _, _)
SplitFrom(s, sep, cur) ==
    IF s = <<>> THEN <<cur>>
    ELSE IF Head(s) = sep THEN <<cur>> \o SplitFrom(Tail(s), sep, <<>>)
    ELSE SplitFrom(Tail(s), sep, Append(cur, Head(s)))

Split(s, sep) == SplitFrom(s, sep, <<>>)

\* the value of a run of digits and underscores
RECURSIVE DigitsValue(_, _)
DigitsValue(s, acc) ==
    IF s = <<>> THEN acc
    ELSE IF Head(s) \in Digits
         THEN DigitsValue(Tail(s), 10 * acc + DigitVal(Head(s)))
         ELSE DigitsValue(Tail(s), acc)

\* int(text): surrounding whitespace is skipped, then one optional sign
\* ('+' 43, '-' 45), then decimal digits of any script, with single
\* underscores (95) allowed between two digits; anything else raises
\* ValueError
PyInt(s) ==
    LET t == RStrip(LStrip(s, IntWhitespace), IntWhitespace)
        signed == t # <<>> /\ Head(t) \in {43, 45}
        body == IF signed THEN Tail(t) ELSE t
    IN  IF /\ body # <<>>
           /\ \A i \in 1..Len(body) :
                \/ body[i] \in Digits
                \/ /\ body[i] = 95
                   /\ 1 < i /\ i < Len(body)
                   /\ body[i - 1] \in Digits
                   /\ body[i + 1] \in Digits
        THEN [ok |-> TRUE,
              val |-> IF signed /\ Head(t) = 45
                      THEN 0 - DigitsValue(body, 0) ELSE DigitsValue(body, 0)]
        ELSE [ok |-> FALSE, val |-> 0]

\* str.endswith(suffix)
EndsWith(s, suffix) ==
    /\ Len(s) >= Len(suffix)
    /\ SubSeq(s, Len(s) - Len(suffix) + 1, Len(s)) = suffix

\* os.path.splitext(name)[0]: the name up to its last dot (46); leading
\* dots belong to the root
SplitExtRoot(s) ==
    LET dots == {i \in 1..Len(s) : s[i] = 46}
        last == CHOOSE i \in dots : \A j \in dots : j <= i
    IN  IF dots = {} \/ (\A j \in 1..(last - 1) : s[j] = 46)
        THEN s
        ELSE SubSeq(s, 1, last - 1)

\* '-9999'
SENTINEL == <<45, 57, 57, 57, 57>>

\* '.txt'
TXT == <<46, 116, 120, 116>>

\* '\t'
TAB == <<9>>

-----------------------------------------------------------------------------
(* load_data.load_data_from_files *)

\* one numeric column: columns[k] (IndexError when the line is short),
\* None when its text is '-9999', int(text) otherwise (ValueError)
ParseField(columns, k) ==
    IF Len(columns) < k THEN [exc |-> "IndexError", val |-> NULL]
    ELSE IF columns[k] = SENTINEL THEN [exc |-> "none", val |-> NULL]
    ELSE IF PyInt(columns[k]).ok
         THEN [exc |-> "none", val |-> <<PyInt(columns[k]).val>>]
         ELSE [exc |-> "ValueError", val |-> NULL]

\* the body of the line loop up to the WeatherRecord constructor
ParseLine(line, station, ts) ==
    LET columns == Split(Strip(line), 9)
        mx == ParseField(columns, 2)
        mn == ParseField(columns, 3)
        pr == ParseField(columns, 4)
        exc == IF mx.exc # "none" THEN mx.exc
               ELSE IF mn.exc # "none" THEN mn.exc
               ELSE pr.exc
    IN  [exc |-> exc,
         rec |-> [date |-> columns[1],
                  max_temp |-> mx.val,
                  min_temp |-> mn.val,
                  precipitation |-> pr.val,
                  weather_station_id |-> station,
                  ingestion_timestamp |-> ts]]

WithId(row, id) ==
    [id |-> id,
     date |-> row.date,
     max_temp |-> row.max_temp,
     min_temp |-> row.min_temp,
     precipitation |-> row.precipitation,
     weather_station_id |-> row.weather_station_id,
     ingestion_timestamp |-> row.ingestion_timestamp]

\* the flush of the session's pending objects: INSERTs in the order of add()
Flushed(pend, nid) == {WithId(pend[i], nid + i - 1) : i \in 1..Len(pend)}

\* db.session.commit() inside the load loop
CommitLoad(s) ==
    [s EXCEPT !.records = @ \cup Flushed(s.pending, s.nextId),
              !.nextId = @ + Len(s.pending),
              !.pending = <<>>]

\* one iteration of "for line in file"; ticks[i] is how far the clock moved
\* before the i-th utcnow() of the run
AddLine(s, line, station, ticks) ==
    LET i == s.n + 1
        p == ParseLine(line, station, s.clock + ticks[i])
    IN  IF p.exc # "none"
        THEN [s EXCEPT !.raised = p.exc]
        ELSE [s EXCEPT !.pending = Append(@, p.rec),
                       !.clock = @ + ticks[i],
                       !.n = i]

RECURSIVE LoadLines(_, _, _, _)
LoadLines(s, lines, station, ticks) ==
    IF lines = <<>> \/ s.raised # "none" THEN s
    ELSE LoadLines(AddLine(s, Head(lines), station, ticks), Tail(lines), station, ticks)

\* a loop that commits what a file had added before one of its lines failed
LoadFileCommitPartial(s, file, ticks) ==
    IF ~EndsWith(file.name, TXT) THEN s
    ELSE CommitLoad(LoadLines(s, file.lines, SplitExtRoot(file.name), ticks))

\* one iteration of "for filename in os.listdir(directory)"
LoadFile(s, file, ticks) ==
    IF ~EndsWith(file.name, TXT) THEN s
    ELSE LET after == LoadLines(s, file.lines, SplitExtRoot(file.name), ticks)
         IN  IF after.raised # "none" THEN after ELSE CommitLoad(after)

RECURSIVE LoadFiles(_, _, _)
LoadFiles(s, d, ticks) ==
    IF d = <<>> \/ s.raised # "none" THEN s
    ELSE LoadFiles(LoadFile(s, Head(d), ticks), Tail(d), ticks)

RECURSIVE TotalLines(_)
TotalLines(d) == IF d = <<>> THEN 0 ELSE Len(Head(d).lines) + TotalLines(Tail(d))

\* clock movements of one run: utcnow() never goes back, and the first
\* record of a run is stamped later than every earlier record
TickChoices(d) ==
    {t \in [1..TotalLines(d) -> {0, 1}] : TotalLines(d) >= 1 => t[1] = 1}

LoadResult(d, ticks) ==
    LoadFiles([records |-> records, pending |-> pending, nextId |-> nextId,
               clock |-> clock, raised |-> "none", n |-> 0], d, ticks)

load_data_from_files(d, ticks) ==
    /\ \E r \in {LoadResult(d, ticks)} :
           /\ records' = r.records
           /\ pending' = r.pending
           /\ nextId' = r.nextId
           /\ clock' = r.clock
           /\ raised' = r.raised
    /\ dir' = d
    /\ loadFirstId' = nextId
    /\ dedupRuns' = 0
    /\ lastOp' = "load"
    /\ before' = {}
    /\ statsBefore' = {}
    /\ inserted' = {}
    /\ duplicate_count' = 0
    /\ UNCHANGED <<stats, nextStatId>>

-----------------------------------------------------------------------------
(* SQL *)

\* a = b of SQL as a join condition: NULL = anything is not true
SqlEq(a, b) == a # NULL /\ b # NULL /\ a = b

SetMax(S) == CHOOSE m \in S : \A x \in S : x <= m

RECURSIVE SetSum(_)
SetSum(S) ==
    IF S = {} THEN 0
    ELSE LET x == CHOOSE y \in S : TRUE IN x.v + SetSum(S \ {x})

\* func.substr(text, 1, n)
Substr(s, n) == SubSeq(s, 1, IF Len(s) < n THEN Len(s) ELSE n)

\* func.round(num / den, 0) for den > 0.  The quotient is a float: when
\* num / den is exactly halfway between two integers, the float the
\* database computed lies on either side of the half (SQLite gives -0.07
\* for an average of -0.075 and 0.13 for one of 0.125), or on it and the
\* half is rounded away from zero, so both neighbours are possible results
RoundChoices(num, den) ==
    LET r == num % den
        q == (num - r) \div den
    IN  IF 2 * r < den THEN {q}
        ELSE IF 2 * r > den THEN {q + 1}
        ELSE {q, q + 1}

\* what a query sees: the committed rows and the autoflushed session
Autoflushed == records \cup Flushed(pending, nextId)

-----------------------------------------------------------------------------
(* load_data.remove_duplicates *)

\* the GROUP BY subquery: NULLs of a column fall in one group
RawSubquery(tbl) ==
    {[date |-> r.date,
      max_temp |-> r.max_temp,
      min_temp |-> r.min_temp,
      precipitation |-> r.precipitation,
      weather_station_id |-> r.weather_station_id,
      max_ingestion_timestamp |->
          SetMax({x.ingestion_timestamp : x \in
              {y \in tbl : /\ y.date = r.date
                           /\ y.max_temp = r.max_temp
                           /\ y.min_temp = r.min_temp
                           /\ y.precipitation = r.precipitation
                           /\ y.weather_station_id = r.weather_station_id}})]
     : r \in tbl}

\* a remove_duplicates whose join selects the rows that carry their group's
\* latest timestamp
RawDuplicatesLatest(tbl) ==
    {r \in tbl : \E g \in RawSubquery(tbl) :
        /\ r.date = g.date
        /\ SqlEq(r.max_temp, g.max_temp)
        /\ SqlEq(r.min_temp, g.min_temp)
        /\ SqlEq(r.precipitation, g.precipitation)
        /\ r.weather_station_id = g.weather_station_id
        /\ r.ingestion_timestamp = g.max_ingestion_timestamp}

\* the join of WeatherRecord with the subquery
RawDuplicates(tbl) ==
    {r \in tbl : \E g \in RawSubquery(tbl) :
        /\ r.date = g.date
        /\ SqlEq(r.max_temp, g.max_temp)
        /\ SqlEq(r.min_temp, g.min_temp)
        /\ SqlEq(r.precipitation, g.precipitation)
        /\ r.weather_station_id = g.weather_station_id
        /\ r.ingestion_timestamp # g.max_ingestion_timestamp}

load_remove_duplicates ==
    LET tbl == Autoflushed
        duplicates == RawDuplicates(tbl)
    IN  /\ records' = tbl \ duplicates
        /\ pending' = <<>>
        /\ nextId' = nextId + Len(pending)
        /\ before' = tbl
        /\ duplicate_count' = Cardinality(duplicates)
        /\ dedupRuns' = IF dedupRuns < 2 THEN dedupRuns + 1 ELSE 2
        /\ lastOp' = "raw_dedup"
        /\ statsBefore' = {}
        /\ inserted' = {}
        /\ UNCHANGED <<stats, clock, nextStatId, dir, raised, loadFirstId>>

-----------------------------------------------------------------------------
(* calculate_statistics.calculate_statistics *)

GroupKeys(tbl) == {<<Substr(r.date, 4), r.weather_station_id>> : r \in tbl}

Members(tbl, g) ==
    {r \in tbl : Substr(r.date, 4) = g[1] /\ r.weather_station_id = g[2]}

\* the non-NULL values of one column over a group, one per row
MaxTemps(rows) ==
    {[id |-> r.id, v |-> r.max_temp[1]] : r \in {x \in rows : x.max_temp # NULL}}

\* an average that counts a NULL min_temp as zero
MinTempsNullAsZero(rows) ==
    {[id |-> r.id, v |-> IF r.min_temp = NULL THEN 0 ELSE r.min_temp[1]] : r \in rows}

MinTemps(rows) ==
    {[id |-> r.id, v |-> r.min_temp[1]] : r \in {x \in rows : x.min_temp # NULL}}

Precipitations(rows) ==
    {[id |-> r.id, v |-> r.precipitation[1]] : r \in {x \in rows : x.precipitation # NULL}}

\* func.round(func.avg(column / 10.0), 2), in hundredths: the values the
\* query can give
RoundAvgTenths(vals) ==
    IF vals = {} THEN {NULL}
    ELSE {<<h>> : h \in RoundChoices(10 * SetSum(vals), Cardinality(vals))}

\* func.round(func.sum(column / 100.0), 2), in hundredths
RoundSumHundredths(vals) ==
    IF vals = {} THEN NULL ELSE <<SetSum(vals)>>

\* the WeatherStats objects that can be built from the query's row of
\* group g
StatOf(tbl, g) ==
    {[year |-> PyInt(g[1]).val,
      weather_station_id |-> g[2],
      avg_max_temp |-> mx,
      avg_min_temp |-> mn,
      total_precipitation |-> RoundSumHundredths(Precipitations(Members(tbl, g)))]
     : mx \in RoundAvgTenths(MaxTemps(Members(tbl, g))),
       mn \in RoundAvgTenths(MinTemps(Members(tbl, g)))}

\* the orders in which the query can return its rows: it has no ORDER BY
RowOrders(groups) ==
    {o \in [1..Cardinality(groups) -> groups] :
        \A i \in DOMAIN o : \A j \in DOMAIN o : o[i] = o[j] => i = j}

\* the batch lists a run can build: one object per row of the
\* query, in the order of its rows
Batches(tbl) ==
    LET objects == UNION {StatOf(tbl, g) : g \in GroupKeys(tbl)}
    IN  UNION {{l \in [DOMAIN o -> objects] : \A i \in DOMAIN o : l[i] \in StatOf(tbl, o[i])}
               : o \in RowOrders(GroupKeys(tbl))}

StatWithId(row, id) ==
    [id |-> id,
     year |-> row.year,
     weather_station_id |-> row.weather_station_id,
     avg_max_temp |-> row.avg_max_temp,
     avg_min_temp |-> row.avg_min_temp,
     total_precipitation |-> row.total_precipitation]

\* bulk_save_objects: ids in the order of the list
SavedBatch(batch, nid) ==
    {StatWithId(batch[i], nid + i - 1) : i \in DOMAIN batch}

\* int(record.year) does not raise for the dates of the inputs enumerated
\* here (guard); every batch is below batch_size, so there is one commit
calculate_statistics ==
    LET tbl == Autoflushed
        groups == GroupKeys(tbl)
    IN  /\ \A g \in groups : PyInt(g[1]).ok
        /\ (nextStatId - 1) + Cardinality(groups) <= MaxStatInserts
        /\ \E batch \in Batches(tbl) :
               /\ stats' = stats \cup SavedBatch(batch, nextStatId)
               /\ inserted' = SavedBatch(batch, nextStatId)
        /\ nextStatId' = nextStatId + Cardinality(groups)
        /\ records' = tbl
        /\ pending' = <<>>
        /\ nextId' = nextId + Len(pending)
        /\ dedupRuns' = 0
        /\ lastOp' = "aggregate"
        /\ before' = {}
        /\ statsBefore' = {}
        /\ duplicate_count' = 0
        /\ UNCHANGED <<clock, dir, raised, loadFirstId>>

-----------------------------------------------------------------------------
(* calculate_statistics.remove_duplicates *)

StatsSubquery(tbl) ==
    {[year |-> r.year,
      weather_station_id |-> r.weather_station_id,
      avg_max_temp |-> r.avg_max_temp,
      avg_min_temp |-> r.avg_min_temp,
      total_precipitation |-> r.total_precipitation,
      max_id |->
          SetMax({x.id : x \in
              {y \in tbl : /\ y.year = r.year
                           /\ y.weather_station_id = r.weather_station_id
                           /\ y.avg_max_temp = r.avg_max_temp
                           /\ y.avg_min_temp = r.avg_min_temp
                           /\ y.total_precipitation = r.total_precipitation}})]
     : r \in tbl}

StatsDuplicates(tbl) ==
    {r \in tbl : \E g \in StatsSubquery(tbl) :
        /\ r.year = g.year
        /\ r.weather_station_id = g.weather_station_id
        /\ SqlEq(r.avg_max_temp, g.avg_max_temp)
        /\ SqlEq(r.avg_min_temp, g.avg_min_temp)
        /\ SqlEq(r.total_precipitation, g.total_precipitation)
        /\ r.id # g.max_id}

stats_remove_duplicates ==
    LET duplicates == StatsDuplicates(stats)
    IN  /\ stats' = stats \ duplicates
        /\ statsBefore' = stats
        /\ duplicate_count' = Cardinality(duplicates)
        /\ records' = Autoflushed
        /\ pending' = <<>>
        /\ nextId' = nextId + Len(pending)
        /\ dedupRuns' = 0
        /\ lastOp' = "stats_dedup"
        /\ before' = {}
        /\ inserted' = {}
        /\ UNCHANGED <<clock, nextStatId, dir, raised, loadFirstId>>

-----------------------------------------------------------------------------
(* the end of "with app.app_context()": the session is removed and what it *)
(* had not committed is lost                                               *)

teardown ==
    /\ pending # <<>>
    /\ pending' = <<>>
    /\ dedupRuns' = 0
    /\ lastOp' = "teardown"
    /\ before' = {}
    /\ statsBefore' = {}
    /\ inserted' = {}
    /\ duplicate_count' = 0
    /\ UNCHANGED <<records, stats, clock, nextId, nextStatId, dir, raised, loadFirstId>>

-----------------------------------------------------------------------------
(* Inputs *)

\* '20200101', '20200102', '20210101'
D20200101 == <<50, 48, 50, 48, 48, 49, 48, 49>>
D20200102 == <<50, 48, 50, 48, 48, 49, 48, 50>>
D20210101 == <<50, 48, 50, 49, 48, 49, 48, 49>>

\* a line of four tab-separated fields, with its newline (10)
Line(date, a, b, c) == date \o TAB \o a \o TAB \o b \o TAB \o c \o <<10>>

\* '20200101\t100\t-50\t50\n' and '20200102\t200\t-9999\t150\n'
GoodLines ==
    {Line(D20200101, <<49, 48, 48>>, <<45, 53, 48>>, <<53, 48>>),
     Line(D20200102, <<50, 48, 48>>, SENTINEL, <<49, 53, 48>>)}

\* '20200101\t1x\t-50\t50\n'
BadLines ==
    {Line(D20200101, <<49, 120>>, <<45, 53, 48>>, <<53, 48>>)}

\* 'A.txt', 'B.txt'
FileNames == {<<65>> \o TXT, <<66>> \o TXT}

\* the contents of a data file: 1..MaxLines lines, of which only the last
\* may be malformed (the lines after a malformed one are never read)
LineSeqs ==
    UNION {{l \in [1..k -> GoodLines \cup BadLines] :
               \A i \in 1..(k - 1) : l[i] \in GoodLines} : k \in 1..MaxLines}

Files == {[name |-> n, lines |-> l] : n \in FileNames, l \in LineSeqs}

\* os.listdir gives the names in no particular order
Directories ==
    {<<f>> : f \in Files}
        \cup {<<p[1], p[2]>> : p \in {q \in Files \X Files : q[1].name # q[2].name}}

-----------------------------------------------------------------------------
(* The pipeline *)

Init ==
    /\ records = {}
    /\ pending = <<>>
    /\ stats = {}
    /\ clock = 0
    /\ nextId = 1
    /\ nextStatId = 1
    /\ lastOp = "init"
    /\ dedupRuns = 0
    /\ dir = <<>>
    /\ raised = "none"
    /\ loadFirstId = 1
    /\ before = {}
    /\ statsBefore = {}
    /\ inserted = {}
    /\ duplicate_count = 0

\* the directories of at most n lines
DirectoriesUpTo == [n \in 0..MaxInserts |-> {d \in Directories : TotalLines(d) <= n}]

\* how many more WeatherRecord objects the behaviour may create
Budget ==
    LET a == MaxInserts - ((nextId - 1) + Len(pending))
        b == MaxInserts - clock
    IN  IF a < b THEN a ELSE b

Load ==
    /\ Budget >= 1
    /\ \E d \in DirectoriesUpTo[Budget] :
           \E ticks \in TickChoices(d) : load_data_from_files(d, ticks)

\* Each script runs inside its own "with app.app_context()".  An exception
\* of load_data_from_files leaves that block before remove_duplicates is
\* called, and the session is discarded with what it had pending; every
\* other call starts on a session with nothing pending.
Next ==
    \/ pending = <<>> /\ Load
    \/ pending = <<>> /\ load_remove_duplicates
    \/ pending = <<>> /\ calculate_statistics
    \/ pending = <<>> /\ stats_remove_duplicates
    \/ teardown

Spec == Init /\ [][Next]_vars

-----------------------------------------------------------------------------
(* Specification of one parse: a directory of one file of one line is      *)
(* drawn, and load_data_from_files runs on it once                         *)

\* '-9999', ' -9999', '-09999', '-9_999', '100', '  -50', '1x', '50\x0c',
\* '1\x1c', and the Arabic-Indic digit three
FieldTexts ==
    {SENTINEL,
     <<32, 45, 57, 57, 57, 57>>,
     <<45, 48, 57, 57, 57, 57>>,
     <<45, 57, 95, 57, 57, 57>>,
     <<49, 48, 48>>,
     <<32, 32, 45, 53, 48>>,
     <<49, 120>>,
     <<53, 48, 12>>,
     <<49, 28>>,
     <<1635>>}

\* every line of three such fields, a line of one field and an empty line
ParseLines ==
    {Line(D20200101, a, b, c) : a \in FieldTexts, b \in FieldTexts, c \in FieldTexts}
        \cup {D20200101 \o TAB \o <<49, 48, 48>> \o <<10>>, <<10>>}

\* 'A.txt', 'US.1.txt', 'A.csv'
ParseNames == {<<65>> \o TXT, <<85, 83, 46, 49>> \o TXT, <<65, 46, 99, 115, 118>>}

ParseDirectories == {<<[name |-> n, lines |-> <<l>>]>> : n \in ParseNames, l \in ParseLines}

InitParse ==
    /\ dir \in ParseDirectories
    /\ records = {}
    /\ pending = <<>>
    /\ stats = {}
    /\ clock = 0
    /\ nextId = 1
    /\ nextStatId = 1
    /\ lastOp = "init"
    /\ dedupRuns = 0
    /\ raised = "none"
    /\ loadFirstId = 1
    /\ before = {}
    /\ statsBefore = {}
    /\ inserted = {}
    /\ duplicate_count = 0

NextParse ==
    /\ lastOp = "init"
    /\ \E ticks \in TickChoices(dir) : load_data_from_files(dir, ticks)

SpecParse == InitParse /\ [][NextParse]_vars

-----------------------------------------------------------------------------
(* Specification of the pipeline on one directory of well-formed files:    *)
(* the directory is ingested one or more times, then load_data's           *)
(* remove_duplicates runs, then calculate_statistics                       *)

WellFormedDirectories ==
    {d \in DirectoriesUpTo[MaxInserts] :
        \A i \in 1..Len(d) : \A j \in 1..Len(d[i].lines) : d[i].lines[j] \in GoodLines}

InitReingest ==
    /\ dir \in WellFormedDirectories
    /\ records = {}
    /\ pending = <<>>
    /\ stats = {}
    /\ clock = 0
    /\ nextId = 1
    /\ nextStatId = 1
    /\ lastOp = "init"
    /\ dedupRuns = 0
    /\ raised = "none"
    /\ loadFirstId = 1
    /\ before = {}
    /\ statsBefore = {}
    /\ inserted = {}
    /\ duplicate_count = 0

Reingest ==
    /\ lastOp \in {"init", "load"}
    /\ TotalLines(dir) <= Budget
    /\ \E ticks \in TickChoices(dir) : load_data_from_files(dir, ticks)

ReingestDedup == lastOp = "load" /\ load_remove_duplicates

ReingestAggregate == lastOp = "raw_dedup" /\ calculate_statistics

NextReingest == Reingest \/ ReingestDedup \/ ReingestAggregate

SpecReingest == InitReingest /\ [][NextReingest]_vars

-----------------------------------------------------------------------------
(* Specification of one aggregation: a WeatherRecord table of 1..MaxRows   *)
(* rows is drawn, as earlier load runs left it, and calculate_statistics   *)
(* runs on it once                                                         *)

\* (date, weather_station_id) of a row: two years of station 'A', one of 'B'
AggKeys == <<<<D20200101, <<65>>>>, <<D20210101, <<65>>>>, <<D20200101, <<66>>>>>>

\* (max_temp, min_temp, precipitation) of a row
AggValues ==
    <<<<<<-6>>, NULL, <<50>>>>,
      <<<<-3>>, <<-50>>, <<150>>>>,
      <<<<3>>, <<-4>>, NULL>>>>

\* the rows a table is drawn from: every key with every value triple
AggRows ==
    [c \in 1..(Len(AggKeys) * Len(AggValues)) |->
        [date |-> AggKeys[((c - 1) \div Len(AggValues)) + 1][1],
         weather_station_id |-> AggKeys[((c - 1) \div Len(AggValues)) + 1][2],
         max_temp |-> AggValues[((c - 1) % Len(AggValues)) + 1][1],
         min_temp |-> AggValues[((c - 1) % Len(AggValues)) + 1][2],
         precipitation |-> AggValues[((c - 1) % Len(AggValues)) + 1][3]]]

\* the table whose i-th inserted row is AggRows[pick[i]]
AggTable(pick) ==
    {[id |-> i,
      date |-> AggRows[pick[i]].date,
      max_temp |-> AggRows[pick[i]].max_temp,
      min_temp |-> AggRows[pick[i]].min_temp,
      precipitation |-> AggRows[pick[i]].precipitation,
      weather_station_id |-> AggRows[pick[i]].weather_station_id,
      ingestion_timestamp |-> i] : i \in DOMAIN pick}

\* the aggregates do not depend on the order of insertion, so one order is
\* drawn for every multiset of rows
AggPicks ==
    UNION {{f \in [1..n -> DOMAIN AggRows] : \A i \in 1..(n - 1) : f[i] <= f[i + 1]}
              : n \in 1..MaxRows}

InitAggregate ==
    /\ \E pick \in AggPicks :
           /\ records = AggTable(pick)
           /\ clock = Len(pick)
           /\ nextId = Len(pick) + 1
    /\ pending = <<>>
    /\ stats = {}
    /\ nextStatId = 1
    /\ lastOp = "init"
    /\ dedupRuns = 0
    /\ dir = <<>>
    /\ raised = "none"
    /\ loadFirstId = 1
    /\ before = {}
    /\ statsBefore = {}
    /\ inserted = {}
    /\ duplicate_count = 0

NextAggregate == lastOp = "init" /\ calculate_statistics

SpecAggregate == InitAggregate /\ [][NextAggregate]_vars

-----------------------------------------------------------------------------
(* Properties *)

\* two Observations with the same business key, a NULL equal to a NULL
SameKey(a, b) ==
    /\ a.date = b.date
    /\ a.max_temp = b.max_temp
    /\ a.min_temp = b.min_temp
    /\ a.precipitation = b.precipitation
    /\ a.weather_station_id = b.weather_station_id

HasNull(r) == r.max_temp = NULL \/ r.min_temp = NULL \/ r.precipitation = NULL

LatestOf(tbl, r) ==
    SetMax({x.ingestion_timestamp : x \in {y \in tbl : SameKey(y, r)}})

\* C1: after load_data.remove_duplicates, every business key that had an
\* Observation keeps exactly one, and that one carries the largest
\* ingestion_timestamp of its group.
C1_OneLatestPerKey ==
    lastOp = "raw_dedup" =>
        \A r \in before :
            LET kept == {x \in records : SameKey(x, r)}
            IN  /\ Cardinality(kept) = 1
                /\ \A x \in kept : /\ x \in before
                                   /\ x.ingestion_timestamp = LatestOf(before, r)

\* C2: of two Observations that agree on the business key with a NULL in
\* it and differ in ingestion_timestamp, load_data.remove_duplicates deletes
\* the older and keeps the newer (when it is the newest of its group).
C2_NullKeysDeduplicated ==
    lastOp = "raw_dedup" =>
        \A a \in before : \A b \in before :
            (SameKey(a, b) /\ HasNull(a)
                /\ a.ingestion_timestamp < b.ingestion_timestamp)
            => /\ a \notin records
               /\ (b.ingestion_timestamp = LatestOf(before, b) => b \in records)

\* two YearlyStat rows equal on the full value tuple, a NULL equal to a NULL
SameStat(a, b) ==
    /\ a.year = b.year
    /\ a.weather_station_id = b.weather_station_id
    /\ a.avg_max_temp = b.avg_max_temp
    /\ a.avg_min_temp = b.avg_min_temp
    /\ a.total_precipitation = b.total_precipitation

\* C3: after calculate_statistics.remove_duplicates, of the rows equal on
\* the full value tuple (NULL aggregates included) exactly the row of the
\* largest id is left, and no other row is deleted.
C3_MaxIdPerValueTuple ==
    lastOp = "stats_dedup" =>
        \A r \in statsBefore :
            r \in stats <=> r.id = SetMax({x.id : x \in {y \in statsBefore : SameStat(y, r)}})

\* C4: after calculate_statistics.remove_duplicates there is at most one
\* YearlyStat row per (year, weather_station_id).
C4_OneStatPerYearStation ==
    lastOp = "stats_dedup" =>
        \A a \in stats : \A b \in stats :
            (a.year = b.year /\ a.weather_station_id = b.weather_station_id) => a = b

\* the rows of a group whose column col is not NULL
NonNull(rows, col) == {r \in rows : r[col] # NULL}

RECURSIVE ColumnSum(_, _)
ColumnSum(rows, col) ==
    IF rows = {} THEN 0
    ELSE LET r == CHOOSE x \in rows : TRUE IN r[col][1] + ColumnSum(rows \ {r}, col)

Abs(x) == IF x < 0 THEN 0 - x ELSE x

\* h hundredths is a nearest 2-decimal value of (sum / n) / 10
IsRoundedMeanOfTenths(h, sum, n) == 2 * Abs(h * n - 10 * sum) <= n

GroupRows(g) ==
    {r \in records : Substr(r.date, 4) = g[1] /\ r.weather_station_id = g[2]}

RowsFor(g) ==
    {s \in inserted : s.year = PyInt(g[1]).val /\ s.weather_station_id = g[2]}

\* C5 as stated: a run of calculate_statistics inserts one row per (first 4
\* characters of date, station) group, whose averages are the mean of the
\* non-NULL temperatures divided by 10 and whose total is the sum of the
\* non-NULL precipitations divided by 100.
C5_ExactMeans ==
    lastOp = "aggregate" =>
        /\ Cardinality(inserted) = Cardinality({<<Substr(r.date, 4), r.weather_station_id>> : r \in records})
        /\ \A r \in records :
            LET g == <<Substr(r.date, 4), r.weather_station_id>>
                mx == NonNull(GroupRows(g), "max_temp")
                mn == NonNull(GroupRows(g), "min_temp")
                pr == NonNull(GroupRows(g), "precipitation")
            IN  /\ Cardinality(RowsFor(g)) = 1
                /\ \A s \in RowsFor(g) :
                    /\ mx # {} => /\ s.avg_max_temp # NULL
                                  /\ s.avg_max_temp[1] * Cardinality(mx) = 10 * ColumnSum(mx, "max_temp")
                    /\ mn # {} => /\ s.avg_min_temp # NULL
                                  /\ s.avg_min_temp[1] * Cardinality(mn) = 10 * ColumnSum(mn, "min_temp")
                    /\ pr # {} => s.total_precipitation = <<ColumnSum(pr, "precipitation")>>

\* C5 amended: as C5, with each average rounded to 2 decimal places (to
\* either neighbour when the mean is exactly halfway between two), and an
\* aggregate NULL when its column is NULL in every Observation of the group.
C5_RoundedMeans ==
    lastOp = "aggregate" =>
        /\ Cardinality(inserted) = Cardinality({<<Substr(r.date, 4), r.weather_station_id>> : r \in records})
        /\ \A r \in records :
            LET g == <<Substr(r.date, 4), r.weather_station_id>>
                mx == NonNull(GroupRows(g), "max_temp")
                mn == NonNull(GroupRows(g), "min_temp")
                pr == NonNull(GroupRows(g), "precipitation")
            IN  /\ Cardinality(RowsFor(g)) = 1
                /\ \A s \in RowsFor(g) :
                    /\ IF mx = {} THEN s.avg_max_temp = NULL
                       ELSE /\ s.avg_max_temp # NULL
                            /\ IsRoundedMeanOfTenths(s.avg_max_temp[1],
                                   ColumnSum(mx, "max_temp"), Cardinality(mx))
                    /\ IF mn = {} THEN s.avg_min_temp = NULL
                       ELSE /\ s.avg_min_temp # NULL
                            /\ IsRoundedMeanOfTenths(s.avg_min_temp[1],
                                   ColumnSum(mn, "min_temp"), Cardinality(mn))
                    /\ IF pr = {} THEN s.total_precipitation = NULL
                       ELSE s.total_precipitation = <<ColumnSum(pr, "precipitation")>>

\* a run of calculate_statistics over a group of four Observations in
\* which min_temp is NULL in one and not in another, the mean min_temp has
\* more than 2 decimals, and the mean max_temp is halfway between two
\* hundredths
C5_Witness ==
    /\ lastOp = "aggregate"
    /\ \E r \in records :
        LET g == <<Substr(r.date, 4), r.weather_station_id>>
            mx == NonNull(GroupRows(g), "max_temp")
            mn == NonNull(GroupRows(g), "min_temp")
        IN  /\ Cardinality(mx) = 4
            /\ (10 * ColumnSum(mx, "max_temp")) % 4 = 2
            /\ mn # {}
            /\ mn # GroupRows(g)
            /\ (10 * ColumnSum(mn, "min_temp")) % Cardinality(mn) # 0
            /\ RowsFor(g) # {}

\* what a line of a file becomes when it parses
Parsed(file, i) == ParseLine(file.lines[i], SplitExtRoot(file.name), 0)

WellFormed(file) == \A i \in 1..Len(file.lines) : Parsed(file, i).exc = "none"

\* line i of the file has a committed Observation of the last load run
Persisted(file, i) ==
    /\ Parsed(file, i).exc = "none"
    /\ \E r \in records :
        /\ r.id >= loadFirstId
        /\ r.date = Parsed(file, i).rec.date
        /\ r.max_temp = Parsed(file, i).rec.max_temp
        /\ r.min_temp = Parsed(file, i).rec.min_temp
        /\ r.precipitation = Parsed(file, i).rec.precipitation
        /\ r.weather_station_id = Parsed(file, i).rec.weather_station_id

DataFiles == {i \in 1..Len(dir) : EndsWith(dir[i].name, TXT)}

\* C6: when a load run ends, every well-formed data file of the directory
\* has all its lines persisted, whether or not a sibling file had a
\* malformed line.
C6_SiblingsStillIngested ==
    lastOp = "load" =>
        \A k \in DataFiles :
            WellFormed(dir[k]) => \A i \in 1..Len(dir[k].lines) : Persisted(dir[k], i)

\* C7: once a load run has ended, normally or by a failure partway through
\* a file, and after whatever runs next, each data file of the directory
\* has either all of its lines persisted or none; the Observations of a
\* file whose ingestion failed midway are never persisted.
C7_FileBatchAtomic ==
    \A k \in DataFiles :
        /\ \/ \A i \in 1..Len(dir[k].lines) : Persisted(dir[k], i)
           \/ \A i \in 1..Len(dir[k].lines) : ~Persisted(dir[k], i)
        /\ ~WellFormed(dir[k]) => \A i \in 1..Len(dir[k].lines) : ~Persisted(dir[k], i)

\* a load run failed on the second line of a file, the session that held
\* the Observation of its first line is gone, and a later script has run
C7_Witness ==
    /\ raised # "none"
    /\ lastOp \in {"raw_dedup", "aggregate", "stats_dedup"}
    /\ \E k \in DataFiles :
        /\ Len(dir[k].lines) >= 2
        /\ Parsed(dir[k], 1).exc = "none"
        /\ ~WellFormed(dir[k])
        /\ ~Persisted(dir[k], 1)

\* C8: a second load_data.remove_duplicates run in a row deletes nothing.
C8_RawDedupIdempotent ==
    dedupRuns = 2 => duplicate_count = 0 /\ records = before

\* two runs in a row, the first of which deleted a duplicate and left the
\* Observation the second run saw
C8_Witness ==
    /\ dedupRuns = 2
    /\ Cardinality(records) < nextId - 1
    /\ records # {}

\* the integer a numeric column's text denotes
FieldValue(line, k) == PyInt(Split(Strip(line), 9)[k]).val

\* C9: each numeric field of an Observation is NULL exactly when the
\* line's field is the sentinel -9999 and is the field's integer otherwise;
\* date is the first field and weather_station_id the file name without
\* its extension.
C9_SentinelIsNull ==
    (lastOp = "load" /\ raised = "none") =>
        \A r \in records :
            LET line == dir[1].lines[1]
            IN  /\ r.date = Split(line, 9)[1]
                /\ r.weather_station_id = SubSeq(dir[1].name, 1, Len(dir[1].name) - Len(TXT))
                /\ r.max_temp = IF FieldValue(line, 2) = -9999 THEN NULL ELSE <<FieldValue(line, 2)>>
                /\ r.min_temp = IF FieldValue(line, 3) = -9999 THEN NULL ELSE <<FieldValue(line, 3)>>
                /\ r.precipitation = IF FieldValue(line, 4) = -9999 THEN NULL ELSE <<FieldValue(line, 4)>>

\* the aggregates of a set of YearlyStat rows, without their ids
StatValues(rows) ==
    {<<s.year, s.weather_station_id, s.avg_max_temp, s.avg_min_temp, s.total_precipitation>>
        : s \in rows}

\* the statistics the directory can give when ingested once into an empty
\* store, de-duplicated and aggregated
OnceThrough(d, ticks) ==
    LET once == LoadFiles([records |-> {}, pending |-> <<>>, nextId |-> 1,
                           clock |-> 0, raised |-> "none", n |-> 0], d, ticks).records
        kept == once \ RawDuplicates(once)
    IN  {StatValues(SavedBatch(l, 1)) : l \in Batches(kept)}

\* C10: ingesting a directory of well-formed files k >= 2 times, then
\* de-duplicating and aggregating, gives every (year, station) the
\* aggregates of ingesting it once, de-duplicating and aggregating.
C10_ReingestionNeutral ==
    (lastOp = "aggregate" /\ nextId - 1 >= 2 * TotalLines(dir)) =>
        \E ticks \in TickChoices(dir) : StatValues(inserted) \in OnceThrough(dir, ticks)

====
